---- MODULE Spec2Model ----
(***************************************************************************)
(* Racketlon score calculator: the scoring engine of scoring.js            *)
(* (parseScore, analyzeMatch and the scenario generators), the sheet       *)
(* parser of ocr.js (parseRacketlonScores) and the page of app.js (score   *)
(* and name fields, photo capture, recognition, apply).                    *)
(*                                                                         *)
(* Strings are sequences of one-character strings.  The en dash U+2013 is  *)
(* written as the one-character token "EN".  JavaScript's null is <<>>     *)
(* where the value is otherwise an array or a string built by the engine,  *)
(* and "null" where it is otherwise a name or a number.  An analysis entry *)
(* {type, message} is a record holding the type, the message template      *)
(* (text) and every value the template interpolates: the player named      *)
(* first (who), the sport label (sport), the numbers (nums) and the set    *)
(* score printed as "X-Y" (score, <<>> when the template prints none or    *)
(* when the interpolated score is null).                                   *)
(***************************************************************************)
EXTENDS Integers, Sequences, FiniteSets, TLC

VARIABLES pc, scores, result, scoreStr, parsed, rendered, reparsed,
          ocrText, ocrSheet,
          fields, players, totals, analysisRuns, photo, ocrStatus, ocrResult,
          processBtn, lastOcrResult, activeTab

\* the recognized text and what parseRacketlonScores returned for it
ocrVars == <<ocrText, ocrSheet>>

formVars == <<fields, players, totals, analysisRuns>>
photoVars == <<photo, ocrStatus, ocrResult, processBtn, lastOcrResult>>
uiVars == <<formVars, photoVars, activeTab>>
vars ==
  <<pc, scores, result, scoreStr, parsed, rendered, reparsed, ocrVars, uiVars>>

(***************************************************************************)
(* Bounds                                                                  *)
(***************************************************************************)
\* longest raw score string drawn for the parser
MaxLen == 5
\* largest set score drawn for the engine
MaxScore == 64

(***************************************************************************)
(* Program constants                                                       *)
(***************************************************************************)
SPORTS == <<"tabletennis", "badminton", "squash", "tennis">>

SPORT_LABELS ==
  [s \in {"tabletennis", "badminton", "squash", "tennis"} |->
     CASE s = "tabletennis" -> "Ping-pong"
       [] s = "badminton" -> "Badminton"
       [] s = "squash" -> "Squash"
       [] s = "tennis" -> "Tennis"]

MAX_POINTS_PER_SET == 21

DefaultPlayerA == "Joueur A"
DefaultPlayerB == "Joueur B"

SportSet == {SPORTS[i] : i \in 1..Len(SPORTS)}

(***************************************************************************)
(* Strings                                                                 *)
(***************************************************************************)
DigitChars == <<"0", "1", "2", "3", "4", "5", "6", "7", "8", "9">>
Digits == {DigitChars[i] : i \in 1..10}
Whitespace == {" ", "\n"}

\* scores[sport] of a sport the caller did not set
Undefined == <<"undefined">>

DigitVal(c) == CHOOSE v \in 0..9 : DigitChars[v + 1] = c

\* \d+
IsDigits(s) == Len(s) > 0 /\ \A i \in 1..Len(s) : s[i] \in Digits

RECURSIVE RemoveWhitespace(_)
\* scoreStr.replace(/\s+/g, "")
RemoveWhitespace(s) ==
  IF s = <<>> THEN <<>>
  ELSE IF Head(s) \in Whitespace THEN RemoveWhitespace(Tail(s))
  ELSE <<Head(s)>> \o RemoveWhitespace(Tail(s))

\* scoreStr.trim() === ""
TrimIsEmpty(s) == \A i \in 1..Len(s) : s[i] \in Whitespace

RECURSIVE parseInt(_)
\* parseInt(match[k], 10) of a run of decimal digits
parseInt(ds) ==
  IF Len(ds) = 0 THEN 0
  ELSE 10 * parseInt(SubSeq(ds, 1, Len(ds) - 1)) + DigitVal(ds[Len(ds)])

RECURSIVE NumberToString(_)
\* `${n}` of a non-negative integer
NumberToString(n) ==
  IF n < 10 THEN <<DigitChars[n + 1]>>
  ELSE NumberToString(n \div 10) \o <<DigitChars[(n % 10) + 1]>>

\* `${a}-${b}`
ScoreText(a, b) == NumberToString(a) \o <<"-">> \o NumberToString(b)

(***************************************************************************)
(* parseScore                                                              *)
(***************************************************************************)
\* cleaned.match(/^(\d+)-(\d+)$/): the position of the separator, 0 for no match
MatchScore(cleaned) ==
  LET seps == {i \in 1..Len(cleaned) :
                 /\ cleaned[i] = "-"
                 /\ IsDigits(SubSeq(cleaned, 1, i - 1))
                 /\ IsDigits(SubSeq(cleaned, i + 1, Len(cleaned)))}
  IN IF seps = {} THEN 0 ELSE CHOOSE i \in seps : TRUE

ParseScoreSwapped(str) ==
  IF str = Undefined \/ str = <<>> \/ TrimIsEmpty(str) \/ str = <<"-">>
  THEN <<>>
  ELSE LET cleaned == RemoveWhitespace(str)
           sep == MatchScore(cleaned)
       IN IF sep = 0 THEN <<>>
          ELSE <<parseInt(SubSeq(cleaned, sep + 1, Len(cleaned))),
                 parseInt(SubSeq(cleaned, 1, sep - 1))>>

parseScore(str) ==
  IF str = Undefined \/ str = <<>> \/ TrimIsEmpty(str) \/ str = <<"-">>
  THEN <<>>
  ELSE LET cleaned == RemoveWhitespace(str)
           sep == MatchScore(cleaned)
       IN IF sep = 0 THEN <<>>
          ELSE <<parseInt(SubSeq(cleaned, 1, sep - 1)),
                 parseInt(SubSeq(cleaned, sep + 1, Len(cleaned)))>>

(***************************************************************************)
(* Analysis entries                                                        *)
(***************************************************************************)
\* result.analysis.push({type, message})
Entry(type, text, who, sport, nums, score) ==
  [type |-> type, text |-> text, who |-> who, sport |-> sport,
   nums |-> nums, score |-> score]

Abs(n) == IF n < 0 THEN -n ELSE n
Max(a, b) == IF a > b THEN a ELSE b
Min(a, b) == IF a < b THEN a ELSE b

(***************************************************************************)
(* calculateScoreForGain: the example score, as the pair printed           *)
(* (<<21, loserScore>> for "21-X", <<loserScore, 21>> for "X-21"),         *)
(* <<>> for null                                                           *)
(***************************************************************************)
calculateScoreForGain(gain, forB) ==
  IF gain > 21 \/ gain < -21 THEN <<>>
  ELSE LET loserScore == Max(0, 21 - gain)
       IN IF loserScore > 21 THEN <<>>
          ELSE IF forB THEN <<loserScore, 21>> ELSE <<21, loserScore>>

(***************************************************************************)
(* analyzeLastSport: only one sport remains                                *)
(***************************************************************************)
BMinWinScoreOffByOne(delta) == 21 - delta

\* const bMinWinScore: the most A may score for B to win
bMinWinScore(delta) == 21 - delta - 1

\* const aMinWinScore: the most B may score for A to win
aMinWinScore(absDelta) == 21 - absDelta - 1

\* const gummiScore
gummiScore(d) == 21 - d

analyzeLastSport(playerA, playerB, delta, sportLabel) ==
  IF delta > 0 THEN
    IF delta > 21 THEN
      <<Entry("clinched", "already_won_even", playerA, sportLabel, <<>>, <<0, 21>>)>>
    ELSE IF delta = 21 THEN
      <<Entry("scenario", "must_win_for_gummiarm", playerB, sportLabel, <<>>, <<21, 0>>)>>
    ELSE
      LET bMin == bMinWinScore(delta)
      IN <<Entry("scenario", "wins_if_at_least", playerB, sportLabel, <<>>,
                 <<21, bMin>>),
           Entry("scenario", "wins_if_at_most_or_wins_set", playerA, sportLabel, <<>>,
                 <<21, bMin + 2>>)>>
         \o (IF delta <= 21
             THEN <<Entry("gummiarm_scenario", "gummiarm_if_exactly", "-", sportLabel,
                          <<>>, <<21, gummiScore(delta)>>)>>
             ELSE <<>>)
  ELSE IF delta < 0 THEN
    LET absDelta == Abs(delta)
    IN IF absDelta > 21 THEN
         <<Entry("clinched", "already_won_even", playerB, sportLabel, <<>>, <<21, 0>>)>>
       ELSE
         LET aMin == aMinWinScore(absDelta)
         IN <<Entry("scenario", "wins_if_at_least", playerA, sportLabel, <<>>,
                    <<21, aMin>>),
              Entry("scenario", "wins_if_at_most_or_wins_set", playerB, sportLabel, <<>>,
                    <<21, aMin + 2>>)>>
            \o (IF absDelta <= 21
                THEN <<Entry("gummiarm_scenario", "gummiarm_if_exactly", "-", sportLabel,
                             <<>>, <<21, gummiScore(absDelta)>>)>>
                ELSE <<>>)
  ELSE
    <<Entry("scenario", "set_winner_wins_match", "-", sportLabel, <<>>, <<>>),
      Entry("gummiarm_scenario", "gummiarm_if_set_tied", "-", sportLabel, <<>>, <<>>)>>

(***************************************************************************)
(* analyzeBeforeTennis: two sports remain                                  *)
(***************************************************************************)
AGainNeededToSkipTennisNotStrict(delta) == 21 - delta

\* const aGainNeededToSkipTennis: A must end more than 21 ahead
aGainNeededToSkipTennis(delta) == 22 - delta

\* const bGainNeededToSkipTennis
bGainNeededToSkipTennis(delta) == -22 - delta

BGainForClinchNotStrict(absDelta) == 21 - absDelta

\* const bGainForClinch
bGainForClinch(absDelta) == 22 - absDelta

\* const aGainForClinch
aGainForClinch(absDelta) == 22 + absDelta

SkipTennis(who, sportLabel, scoreNeeded) ==
  IF scoreNeeded # <<>>
  THEN <<Entry("skip_tennis", "wins_without_tennis", who, sportLabel, <<>>, scoreNeeded)>>
  ELSE <<>>

analyzeBeforeTennis(playerA, playerB, delta, sportLabel) ==
  <<Entry("header", "analysis_of", "-", sportLabel, <<>>, <<>>)>>
  \o
  (IF delta >= 0 THEN
     LET aGain == aGainNeededToSkipTennis(delta)
         bGainNeeded == Abs(bGainNeededToSkipTennis(delta))
     IN (IF aGain <= 21
         THEN SkipTennis(playerA, sportLabel, calculateScoreForGain(aGain, FALSE))
         ELSE <<>>)
        \o
        (IF delta <= 21 /\ bGainNeeded <= 21
         THEN SkipTennis(playerB, sportLabel, calculateScoreForGain(bGainNeeded, TRUE))
         ELSE <<>>)
        \o
        (IF delta > 0
         THEN <<Entry("tennis_setup", "keeps_advantage_if_loses_by_at_most", playerA,
                      sportLabel, <<delta - 1>>, <<>>),
                Entry("tennis_setup", "must_gain_for_advantage", playerB,
                      sportLabel, <<delta + 1>>, <<>>)>>
         ELSE <<Entry("tennis_setup", "set_winner_has_advantage", "-",
                      sportLabel, <<>>, <<>>)>>)
   ELSE
     LET absDelta == Abs(delta)
         bGain == bGainForClinch(absDelta)
         aGain == aGainForClinch(absDelta)
     IN (IF bGain <= 21
         THEN SkipTennis(playerB, sportLabel, calculateScoreForGain(bGain, TRUE))
         ELSE <<>>)
        \o
        (IF aGain <= 21
         THEN SkipTennis(playerA, sportLabel, calculateScoreForGain(aGain, FALSE))
         ELSE <<>>)
        \o
        <<Entry("tennis_setup", "keeps_advantage_if_loses_by_at_most", playerB,
                sportLabel, <<absDelta - 1>>, <<>>),
          Entry("tennis_setup", "must_gain_for_advantage", playerA,
                sportLabel, <<absDelta + 1>>, <<>>)>>)

(***************************************************************************)
(* analyzeMultipleSportsRemaining: three or four sports remain             *)
(***************************************************************************)
AGainToClinchNotStrict(pointsAfterThis, delta) == pointsAfterThis - delta

aGainToClinch(pointsAfterThis, delta) == pointsAfterThis - delta + 1

BGainToClinchNotStrict(pointsAfterThis, delta) == pointsAfterThis + delta

bGainToClinch(pointsAfterThis, delta) == pointsAfterThis + delta + 1

analyzeMultipleSportsRemaining(playerA, playerB, delta, sportLabel, remaining) ==
  LET pointsAfterThis == (remaining - 1) * MAX_POINTS_PER_SET
      aGain == aGainToClinch(pointsAfterThis, delta)
      bGain == bGainToClinch(pointsAfterThis, delta)
  IN <<Entry("info", "sports_remaining", "-", "-",
             <<remaining, pointsAfterThis + 21>>, <<>>)>>
     \o
     (IF aGain <= 21
      THEN <<Entry("clinch_possible", "can_win_after", playerA, sportLabel, <<>>,
                   calculateScoreForGain(aGain, FALSE))>>
      ELSE <<>>)
     \o
     (IF bGain <= 21
      THEN <<Entry("clinch_possible", "can_win_after", playerB, sportLabel, <<>>,
                   calculateScoreForGain(bGain, TRUE))>>
      ELSE <<>>)
     \o
     (IF aGain > 21 /\ bGain > 21
      THEN <<Entry("info", "nobody_can_win_after", "-", sportLabel, <<>>, <<>>)>>
      ELSE <<>>)

(***************************************************************************)
(* generateInProgressAnalysis                                              *)
(***************************************************************************)
\* SPORTS.findIndex((s) => !result.sports[s].played), 1-based; 0 for -1
nextSportIndex(sports) ==
  LET unplayed == {i \in 1..Len(SPORTS) : ~sports[SPORTS[i]].played}
  IN IF unplayed = {} THEN 0
     ELSE CHOOSE i \in unplayed : \A j \in unplayed : i <= j

\* the leader / tied entry
CurrentLeader(r, playerA, playerB) ==
  IF r.currentDelta > 0
  THEN Entry("leader", "leads_by", playerA, "-",
             <<r.currentDelta, r.totalA, r.totalB>>, <<>>)
  ELSE IF r.currentDelta < 0
  THEN Entry("leader", "leads_by", playerB, "-",
             <<Abs(r.currentDelta), r.totalB, r.totalA>>, <<>>)
  ELSE Entry("tied", "perfect_tie", "-", "-", <<r.totalA, r.totalB>>, <<>>)

\* the entries pushed onto result.analysis
generateInProgressAnalysis(r, playerA, playerB) ==
  LET idx == nextSportIndex(r.sports)
  IN <<CurrentLeader(r, playerA, playerB)>>
     \o
     (IF idx = 0 THEN <<>>
      ELSE LET nextLabel == SPORT_LABELS[SPORTS[idx]]
           IN IF r.sportsRemaining = 1
              THEN analyzeLastSport(playerA, playerB, r.currentDelta, nextLabel)
              ELSE IF r.sportsRemaining = 2
              THEN analyzeBeforeTennis(playerA, playerB, r.currentDelta, nextLabel)
              ELSE analyzeMultipleSportsRemaining(playerA, playerB, r.currentDelta,
                                                  nextLabel, r.sportsRemaining))

(***************************************************************************)
(* analyzeMatch                                                            *)
(***************************************************************************)
\* result.sports[sport]
SportResult(sport, p) ==
  [label |-> SPORT_LABELS[sport],
   played |-> p # <<>>,
   scoreA |-> IF p # <<>> THEN p[1] ELSE "null",
   scoreB |-> IF p # <<>> THEN p[2] ELSE "null",
   delta |-> IF p # <<>> THEN p[1] - p[2] ELSE 0]

AddPlayedDropsB(acc, p) ==
  IF p # <<>>
  THEN [totalA |-> acc.totalA + p[1], totalB |-> acc.totalB + p[1],
        sportsPlayed |-> acc.sportsPlayed + 1]
  ELSE acc

\* if (parsed) { totalA += parsed[0]; totalB += parsed[1]; sportsPlayed++ }
AddPlayed(acc, p) ==
  IF p # <<>>
  THEN [totalA |-> acc.totalA + p[1], totalB |-> acc.totalB + p[2],
        sportsPlayed |-> acc.sportsPlayed + 1]
  ELSE acc

RECURSIVE ParseEachSport(_, _)
\* for (const sport of SPORTS): the totals after the first n sports
ParseEachSport(sc, n) ==
  IF n = 0 THEN [totalA |-> 0, totalB |-> 0, sportsPlayed |-> 0]
  ELSE AddPlayed(ParseEachSport(sc, n - 1), parseScore(sc[SPORTS[n]]))

AlreadyDecidedNotStrict(currentDelta, maxRemainingPoints) ==
  Abs(currentDelta) >= maxRemainingPoints

AlreadyDecidedNoAbs(currentDelta, maxRemainingPoints) ==
  currentDelta > maxRemainingPoints

\* Math.abs(result.currentDelta) > result.maxRemainingPoints
AlreadyDecided(currentDelta, maxRemainingPoints) ==
  Abs(currentDelta) > maxRemainingPoints

WinnerOfSwapped(currentDelta, playerA, playerB) ==
  IF currentDelta < 0 THEN playerA ELSE playerB

\* result.currentDelta > 0 ? playerA : playerB
WinnerOf(currentDelta, playerA, playerB) ==
  IF currentDelta > 0 THEN playerA ELSE playerB

analyzeMatch(sc, playerA, playerB) ==
  LET agg == ParseEachSport(sc, Len(SPORTS))
      sportsRemaining == 4 - agg.sportsPlayed
      r == [playerA |-> playerA,
            playerB |-> playerB,
            sports |-> [s \in SportSet |-> SportResult(s, parseScore(sc[s]))],
            totalA |-> agg.totalA,
            totalB |-> agg.totalB,
            currentDelta |-> agg.totalA - agg.totalB,
            sportsPlayed |-> agg.sportsPlayed,
            sportsRemaining |-> sportsRemaining,
            maxRemainingPoints |-> sportsRemaining * MAX_POINTS_PER_SET,
            status |-> "in_progress",
            winner |-> "null",
            analysis |-> <<>>]
  IN IF r.sportsPlayed = 4 THEN
       IF r.currentDelta = 0 THEN
         [r EXCEPT !.status = "gummiarm",
                   !.analysis = <<Entry("gummiarm", "perfect_tie_gummiarm", "-", "-",
                                        <<r.totalA, r.totalB>>, <<>>)>>]
       ELSE
         LET winner == WinnerOf(r.currentDelta, playerA, playerB)
         IN [r EXCEPT !.status = "finished",
                      !.winner = winner,
                      !.analysis = <<Entry("winner", "wins_total", winner, "-",
                                           <<Max(r.totalA, r.totalB),
                                             Min(r.totalA, r.totalB),
                                             Abs(r.currentDelta)>>, <<>>)>>]
     ELSE IF AlreadyDecided(r.currentDelta, r.maxRemainingPoints) THEN
       LET winner == WinnerOf(r.currentDelta, playerA, playerB)
       IN [r EXCEPT !.status = "finished",
                    !.winner = winner,
                    !.analysis = <<Entry("winner", "already_won", winner, "-",
                                         <<Abs(r.currentDelta), r.maxRemainingPoints>>,
                                         <<>>)>>]
     ELSE
       [r EXCEPT !.status = "in_progress",
                 !.analysis = generateInProgressAnalysis(r, playerA, playerB)]

(***************************************************************************)
(* Inputs                                                                  *)
(***************************************************************************)
\* the losing sides of the sets to 21 that are drawn
LoserScores == {0, 14, 19, 20, 21}

\* the set scores above 21 that are drawn (against 0)
OversizedScores == {22, 43, 44, 63, MaxScore}

\* the set scores drawn for one sport
SetScores ==
  {<<MAX_POINTS_PER_SET, x>> : x \in LoserScores}
  \cup {<<x, MAX_POINTS_PER_SET>> : x \in LoserScores}
  \cup {<<k, 0>> : k \in OversizedScores}
  \cup {<<0, k>> : k \in OversizedScores}

\* scores[sport]: absent, malformed ("21" and an en dash) or `${scoreA}-${scoreB}`
ScoreInputs ==
  {Undefined, <<"2", "1", "EN">>} \cup {ScoreText(p[1], p[2]) : p \in SetScores}

\* the characters of the raw strings drawn for parseScore
Alphabet == {"0", "1", "-", "EN", " ", "a"}

ScoreStrings ==
  {Undefined} \cup UNION {[1..n -> Alphabet] : n \in 0..MaxLen}

NoResult == [status |-> "none"]
NoSheet == [confidence |-> -1]
NoOcr == ocrText = <<>> /\ ocrSheet = NoSheet

\* The page as it is loaded: empty score fields and names, no photo, the
\* recognition panels hidden, no stored recognition result
EmptyFields == [s \in SportSet |-> [scoreA |-> <<>>, scoreB |-> <<>>]]
NoPlayers ==
  [playerA |-> <<>>, playerB |-> <<>>, headerA |-> <<"A">>, headerB |-> <<"B">>]
ZeroTotals ==
  [totalA |-> 0, totalB |-> 0, deltaText |-> <<>>, className |-> "delta-zero"]
NoPhoto == [file |-> FALSE, reading |-> FALSE, previewHidden |-> TRUE]
NothingDetected ==
  [raw |-> <<>>, detected |-> [s \in SportSet |-> <<>>], players |-> <<>>]
PageLoaded ==
  /\ fields = EmptyFields
  /\ players = NoPlayers
  /\ totals = ZeroTotals
  /\ analysisRuns = 0
  /\ photo = NoPhoto
  /\ ocrStatus = [hidden |-> TRUE, text |-> ""]
  /\ ocrResult = [hidden |-> TRUE, text |-> NothingDetected]
  /\ processBtn = [disabled |-> FALSE]
  /\ lastOcrResult = NoSheet
  /\ activeTab = "manual"
NoScores == [s \in SportSet |-> Undefined]

(***************************************************************************)
(* The engine: one call of analyzeMatch on drawn scores                    *)
(***************************************************************************)
Init ==
  /\ pc = "start"
  /\ scores \in [SportSet -> ScoreInputs]
  /\ result = NoResult
  /\ scoreStr = Undefined
  /\ parsed = <<>>
  /\ rendered = <<>>
  /\ reparsed = <<>>
  /\ NoOcr
  /\ PageLoaded

AnalyzeMatch ==
  /\ pc = "start"
  /\ result' = analyzeMatch(scores, DefaultPlayerA, DefaultPlayerB)
  /\ pc' = "done"
  /\ UNCHANGED <<scores, scoreStr, parsed, rendered, reparsed, ocrVars, uiVars>>

Next == AnalyzeMatch

Spec == Init /\ [][Next]_vars

(***************************************************************************)
(* The parser: parseScore on a drawn string, then on the rendering of the  *)
(* pair it returned                                                        *)
(***************************************************************************)
InitParse ==
  /\ pc = "start"
  /\ scores = NoScores
  /\ result = NoResult
  /\ scoreStr \in ScoreStrings
  /\ parsed = <<>>
  /\ rendered = <<>>
  /\ reparsed = <<>>
  /\ NoOcr
  /\ PageLoaded

ParseScore ==
  /\ pc = "start"
  /\ parsed' = parseScore(scoreStr)
  /\ pc' = "parsed"
  /\ UNCHANGED <<scores, result, scoreStr, rendered, reparsed, ocrVars, uiVars>>

RenderScore ==
  /\ pc = "parsed"
  /\ parsed # <<>>
  /\ rendered' = ScoreText(parsed[1], parsed[2])
  /\ pc' = "rendered"
  /\ UNCHANGED <<scores, result, scoreStr, parsed, reparsed, ocrVars, uiVars>>

ReparseScore ==
  /\ pc = "rendered"
  /\ reparsed' = parseScore(rendered)
  /\ pc' = "reparsed"
  /\ UNCHANGED <<scores, result, scoreStr, parsed, rendered, ocrVars, uiVars>>

NextParse == ParseScore \/ RenderScore \/ ReparseScore

SpecParse == InitParse /\ [][NextParse]_vars

(***************************************************************************)
(* What the drawn inputs mean, read off the input sets and not through the *)
(* parser                                                                  *)
(***************************************************************************)
\* the set score a drawn scores[sport] was rendered from, <<>> for none
Entered ==
  [str \in ScoreInputs |->
     IF \E p \in SetScores : ScoreText(p[1], p[2]) = str
     THEN CHOOSE p \in SetScores : ScoreText(p[1], p[2]) = str
     ELSE <<>>]

EnteredSports == {s \in SportSet : Entered[scores[s]] # <<>>}

EnteredA(s) == IF s \in EnteredSports THEN Entered[scores[s]][1] ELSE 0
EnteredB(s) == IF s \in EnteredSports THEN Entered[scores[s]][2] ELSE 0

EnteredTotalA ==
  EnteredA("tabletennis") + EnteredA("badminton") + EnteredA("squash") + EnteredA("tennis")
EnteredTotalB ==
  EnteredB("tabletennis") + EnteredB("badminton") + EnteredB("squash") + EnteredB("tennis")

EnteredDelta == EnteredTotalA - EnteredTotalB
EnteredRemaining == 4 - Cardinality(EnteredSports)

Done == pc = "done"

Leader == IF EnteredDelta > 0 THEN DefaultPlayerA ELSE DefaultPlayerB
Trailing == IF EnteredDelta > 0 THEN DefaultPlayerB ELSE DefaultPlayerA

\* the label of the first sport, in play order, that has no score
NextLabel ==
  LET open == {i \in 1..4 : SPORTS[i] \notin EnteredSports}
  IN SPORT_LABELS[SPORTS[CHOOSE i \in open : \A j \in open : i <= j]]

\* the entries of a given type, in order
OfType(analysis, type) == SelectSeq(analysis, LAMBDA e : e.type = type)

(***************************************************************************)
(* C1: totalA and totalB are the sums of scoreA and scoreB over the played *)
(* sports, sportsPlayed is their number, sportsPlayed + sportsRemaining is *)
(* 4, currentDelta is totalA - totalB and maxRemainingPoints is            *)
(* sportsRemaining * 21.                                                   *)
(***************************************************************************)
C1_Aggregates ==
  Done =>
    /\ result.totalA = EnteredTotalA
    /\ result.totalB = EnteredTotalB
    /\ result.sportsPlayed = Cardinality(EnteredSports)
    /\ \A s \in SportSet : result.sports[s].played <=> s \in EnteredSports
    /\ \A s \in EnteredSports :
         /\ result.sports[s].scoreA = EnteredA(s)
         /\ result.sports[s].scoreB = EnteredB(s)
    /\ result.sportsPlayed + result.sportsRemaining = 4
    /\ result.currentDelta = result.totalA - result.totalB
    /\ result.maxRemainingPoints = result.sportsRemaining * 21

C1_Witness ==
  /\ Done
  /\ result.sportsPlayed = 3
  /\ result.totalA = 61
  /\ result.totalB = 42
  /\ scores["badminton"] = <<"2", "1", "EN">>

(***************************************************************************)
(* C2: with all four sports played, equal totals give status gummiarm, no  *)
(* winner and exactly one entry of type gummiarm; different totals give    *)
(* status finished, the player with the higher total as winner and exactly *)
(* one entry of type winner.                                               *)
(***************************************************************************)
C2_AllPlayed ==
  (Done /\ EnteredRemaining = 0) =>
    /\ Len(result.analysis) = 1
    /\ EnteredTotalA = EnteredTotalB =>
         /\ result.status = "gummiarm"
         /\ result.winner = "null"
         /\ result.analysis[1].type = "gummiarm"
    /\ EnteredTotalA > EnteredTotalB =>
         /\ result.status = "finished"
         /\ result.winner = DefaultPlayerA
         /\ result.analysis[1].type = "winner"
    /\ EnteredTotalA < EnteredTotalB =>
         /\ result.status = "finished"
         /\ result.winner = DefaultPlayerB
         /\ result.analysis[1].type = "winner"

C2_Witness ==
  /\ Done
  /\ EnteredRemaining = 0
  /\ EnteredTotalA = 82
  /\ EnteredTotalB = 83
  /\ result.winner = DefaultPlayerB

(***************************************************************************)
(* C3: with fewer than four sports played, the status is finished with the *)
(* current leader as winner exactly when |totalA - totalB| is greater than *)
(* (4 - sportsPlayed) * 21; otherwise it is in_progress with no winner.    *)
(* It is never gummiarm.                                                   *)
(***************************************************************************)
C3_EarlyFinish ==
  (Done /\ EnteredRemaining > 0) =>
    /\ result.status # "gummiarm"
    /\ Abs(EnteredDelta) > EnteredRemaining * 21 =>
         /\ result.status = "finished"
         /\ result.winner = Leader
    /\ Abs(EnteredDelta) <= EnteredRemaining * 21 =>
         /\ result.status = "in_progress"
         /\ result.winner = "null"

C3_Witness ==
  /\ Done
  /\ EnteredRemaining = 2
  /\ EnteredDelta = -42
  /\ result.status = "in_progress"

(***************************************************************************)
(* C4: with one sport remaining and 0 < |delta| < 21 (d = |delta|), the    *)
(* entries after the leader entry are exactly: a scenario saying the       *)
(* trailing player wins with 21-(21-d-1) or better, a scenario for the     *)
(* leading player, and a gummiarm_scenario at exactly 21-(21-d).  For      *)
(* every last-sport result 21-x of the trailing player (0 <= x <= 21) the  *)
(* trailing player ends with the higher total iff x <= 21-d-1, the totals  *)
(* are tied iff x = 21-d, and the leader keeps the higher total iff x is   *)
(* at least the value printed in the leader's scenario, 21-d+1.            *)
(***************************************************************************)
C4_LastSportThresholds ==
  (Done /\ EnteredRemaining = 1 /\ Abs(EnteredDelta) > 0 /\ Abs(EnteredDelta) < 21) =>
    LET a == result.analysis
        d == Abs(EnteredDelta)
        leadTotal == Max(EnteredTotalA, EnteredTotalB)
        trailTotal == Min(EnteredTotalA, EnteredTotalB)
    IN /\ result.status = "in_progress"
       /\ Len(a) = 4
       /\ a[1].type = "leader" /\ a[1].who = Leader
       /\ a[2] = Entry("scenario", "wins_if_at_least", Trailing, NextLabel, <<>>,
                       <<21, 21 - d - 1>>)
       /\ a[3] = Entry("scenario", "wins_if_at_most_or_wins_set", Leader, NextLabel, <<>>,
                       <<21, 21 - d + 1>>)
       /\ a[4] = Entry("gummiarm_scenario", "gummiarm_if_exactly", "-", NextLabel, <<>>,
                       <<21, 21 - d>>)
       /\ \A x \in 0..21 :
            /\ (trailTotal + 21 > leadTotal + x) <=> (x <= a[2].score[2])
            /\ (trailTotal + 21 = leadTotal + x) <=> (x = a[4].score[2])
            /\ (trailTotal + 21 < leadTotal + x) <=> (x >= a[3].score[2])

C4_Witness ==
  /\ Done
  /\ EnteredRemaining = 1
  /\ EnteredDelta = 18
  /\ Len(result.analysis) = 4
  /\ result.analysis[2].score = <<21, 2>>
  /\ result.analysis[4].score = <<21, 3>>

(***************************************************************************)
(* C5: with one sport remaining and |delta| = 21, whichever player leads,  *)
(* the entries after the leader entry are exactly the one scenario that    *)
(* the trailing player must win the last sport 21-0 to reach the gummiarm. *)
(***************************************************************************)
C5_MustWin21To0 ==
  (Done /\ EnteredRemaining = 1 /\ Abs(EnteredDelta) = 21) =>
    /\ Len(result.analysis) = 2
    /\ result.analysis[1].type = "leader"
    /\ result.analysis[2] = Entry("scenario", "must_win_for_gummiarm", Trailing,
                                  NextLabel, <<>>, <<21, 0>>)

(***************************************************************************)
(* C6: every analysis entry that carries an example set score (the         *)
(* last-sport scenarios, skip_tennis, clinch_possible) shows a loser score *)
(* that is an integer from 0 to 21; when no such score can be derived for  *)
(* a side, no entry is emitted for that side.                              *)
(***************************************************************************)
CarriesScore(e) ==
  \/ e.type \in {"skip_tennis", "clinch_possible"}
  \/ e.text \in {"must_win_for_gummiarm", "wins_if_at_least",
                 "wins_if_at_most_or_wins_set", "gummiarm_if_exactly"}

C6_LoserScoreInRange ==
  Done =>
    \A i \in 1..Len(result.analysis) :
      LET e == result.analysis[i]
      IN CarriesScore(e) =>
           /\ Len(e.score) = 2
           /\ e.score[1] \in 0..21
           /\ e.score[2] \in 0..21

(***************************************************************************)
(* C7: with two sports remaining, a skip_tennis entry is emitted only for  *)
(* the current leader, exactly when 1 <= |delta| <= 22, with example score *)
(* 21-X (X-21 when B leads) where X = |delta| - 1.  That result puts the   *)
(* leader more than 21 ahead, the next-worse result 21-(X+1) exactly 21    *)
(* ahead.  With delta = 0 there is no skip_tennis entry and the only       *)
(* scenario message is the generic tennis_setup entry.                     *)
(***************************************************************************)
C7_SkipTennis ==
  (Done /\ EnteredRemaining = 2) =>
    LET a == result.analysis
        d == Abs(EnteredDelta)
        skips == OfType(a, "skip_tennis")
    IN /\ (d >= 1 /\ d <= 22) =>
            /\ Len(skips) = 1
            /\ skips[1].who = Leader
            /\ skips[1].sport = NextLabel
            /\ skips[1].score = IF EnteredDelta > 0 THEN <<21, d - 1>> ELSE <<d - 1, 21>>
            /\ LET X == IF EnteredDelta > 0 THEN skips[1].score[2] ELSE skips[1].score[1]
               IN /\ d + (21 - X) > MAX_POINTS_PER_SET
                  /\ d + (21 - (X + 1)) = MAX_POINTS_PER_SET
       /\ ~(d >= 1 /\ d <= 22) => skips = <<>>
       /\ d = 0 =>
            /\ Len(a) = 3
            /\ a[1].type = "tied"
            /\ a[2].type = "header"
            /\ a[3] = Entry("tennis_setup", "set_winner_has_advantage", "-", NextLabel,
                            <<>>, <<>>)

C7_Witness ==
  /\ Done
  /\ EnteredRemaining = 2
  /\ EnteredDelta = -22
  /\ OfType(result.analysis, "skip_tennis")
       = <<Entry("skip_tennis", "wins_without_tennis", DefaultPlayerB, NextLabel, <<>>,
                 <<21, 21>>)>>

(***************************************************************************)
(* C8: with r = 3 or 4 sports remaining and pointsAfterThis = (r-1)*21,    *)
(* the analysis is the leader/tied entry, an info entry reporting r sports *)
(* and r*21 points, a clinch_possible entry for A iff                      *)
(* pointsAfterThis - delta + 1 <= 21, one for B iff                        *)
(* pointsAfterThis + delta + 1 <= 21, and a final info entry that nobody   *)
(* can win after the next sport alone iff neither was emitted.             *)
(***************************************************************************)
Shape(analysis) ==
  [i \in 1..Len(analysis) |-> <<analysis[i].type, analysis[i].text, analysis[i].who>>]

ExpectedMultiple ==
  LET r == EnteredRemaining
      pointsAfterThis == (r - 1) * 21
      forA == pointsAfterThis - EnteredDelta + 1 <= 21
      forB == pointsAfterThis + EnteredDelta + 1 <= 21
  IN <<IF EnteredDelta = 0 THEN <<"tied", "perfect_tie", "-">>
       ELSE <<"leader", "leads_by", Leader>>,
       <<"info", "sports_remaining", "-">>>>
     \o (IF forA THEN <<<<"clinch_possible", "can_win_after", DefaultPlayerA>>>> ELSE <<>>)
     \o (IF forB THEN <<<<"clinch_possible", "can_win_after", DefaultPlayerB>>>> ELSE <<>>)
     \o (IF ~forA /\ ~forB THEN <<<<"info", "nobody_can_win_after", "-">>>> ELSE <<>>)

\* C8 as stated, for every margin
C8_MultipleRemaining ==
  (Done /\ EnteredRemaining \in {3, 4}) =>
    /\ Shape(result.analysis) = ExpectedMultiple
    /\ result.analysis[2].nums = <<EnteredRemaining, EnteredRemaining * 21>>

\* C8 amended: as C8, while the match is in progress (|delta| <= r*21)
C8_MultipleRemainingInProgress ==
  (Done /\ EnteredRemaining \in {3, 4}
        /\ Abs(EnteredDelta) <= EnteredRemaining * 21) =>
    /\ result.status = "in_progress"
    /\ Shape(result.analysis) = ExpectedMultiple
    /\ result.analysis[2].nums = <<EnteredRemaining, EnteredRemaining * 21>>

\* only table tennis played, 21-0
C8_Witness ==
  /\ Done
  /\ EnteredSports = {"tabletennis"}
  /\ scores["tabletennis"] = <<"2", "1", "-", "0">>
  /\ result.status = "in_progress"
  /\ Shape(result.analysis) = <<<<"leader", "leads_by", DefaultPlayerA>>,
                                <<"info", "sports_remaining", "-">>,
                                <<"info", "nobody_can_win_after", "-">>>>

(***************************************************************************)
(* C9: parseScore returns a pair only for strings of the form              *)
(* <digits>-<digits> with optional whitespace around the separator (here   *)
(* also at the two ends); every other string, and an absent value, yields  *)
(* null.                                                                   *)
(***************************************************************************)
\* whitespace*, digits+, whitespace*
PaddedDigits(s) ==
  \E i \in 1..Len(s) : \E j \in i..Len(s) :
    /\ \A k \in 1..Len(s) : IF k >= i /\ k <= j THEN s[k] \in Digits
                            ELSE s[k] \in Whitespace

WellFormed(s) ==
  \E i \in 1..Len(s) :
    /\ s[i] = "-"
    /\ PaddedDigits(SubSeq(s, 1, i - 1))
    /\ PaddedDigits(SubSeq(s, i + 1, Len(s)))

C9_PairOnlyForWellFormed ==
  pc \in {"parsed", "rendered", "reparsed"} =>
    (parsed # <<>> <=> (scoreStr # Undefined /\ WellFormed(scoreStr)))

(***************************************************************************)
(* C10: for every string for which parseScore returns a pair (a, b),       *)
(* parseScore of the rendering "a-b" returns the same pair.                *)
(***************************************************************************)
C10_RoundTrip ==
  pc = "reparsed" => reparsed = parsed

\* a string with a leading zero and whitespace, not its own rendering
C10_Witness ==
  /\ pc = "reparsed"
  /\ scoreStr = <<"0", "1", " ", "-", "0">>
  /\ rendered = <<"1", "-", "0">>
  /\ reparsed = <<1, 0>>

(***************************************************************************)
(* C14: mirror symmetry.  With zero, two, three or four sports remaining,  *)
(* exchanging scoreA and scoreB in every played sport and exchanging the   *)
(* two names gives the mirrored result: the same status, the totals        *)
(* exchanged, currentDelta negated, the same player as winner, and an      *)
(* analysis with the same sequence of entry types, each example score      *)
(* mirrored (21-X becomes X-21).                                           *)
(***************************************************************************)
\* scores[sport] with the two sides exchanged
SwapScore(str) ==
  IF Entered[str] # <<>> THEN ScoreText(Entered[str][2], Entered[str][1]) ELSE str

Mirrored ==
  analyzeMatch([s \in SportSet |-> SwapScore(scores[s])], DefaultPlayerB, DefaultPlayerA)

MirrorScore(score) == IF score = <<>> THEN <<>> ELSE <<score[2], score[1]>>

C14_MirrorSymmetry ==
  (Done /\ EnteredRemaining # 1) =>
    LET m == Mirrored
    IN /\ m.status = result.status
       /\ m.totalA = result.totalB
       /\ m.totalB = result.totalA
       /\ m.currentDelta = -result.currentDelta
       /\ m.winner = result.winner
       /\ Len(m.analysis) = Len(result.analysis)
       /\ \A i \in 1..Len(result.analysis) :
            /\ m.analysis[i].type = result.analysis[i].type
            /\ m.analysis[i].who = result.analysis[i].who
            /\ m.analysis[i].score = MirrorScore(result.analysis[i].score)

C14_Witness ==
  /\ Done
  /\ EnteredRemaining = 2
  /\ EnteredDelta = -8
  /\ OfType(result.analysis, "skip_tennis")
       = <<Entry("skip_tennis", "wins_without_tennis", DefaultPlayerB, NextLabel, <<>>,
                 <<7, 21>>)>>
  /\ OfType(Mirrored.analysis, "skip_tennis")
       = <<Entry("skip_tennis", "wins_without_tennis", DefaultPlayerB, NextLabel, <<>>,
                 <<21, 7>>)>>

(***************************************************************************)
(* C15: analyzeMatch never produces an entry of type clinched: whenever    *)
(* exactly one sport remains and |delta| > 21 the status is finished with  *)
(* a single winner entry.                                                  *)
(***************************************************************************)
C15_NeverClinched ==
  Done =>
    /\ OfType(result.analysis, "clinched") = <<>>
    /\ (EnteredRemaining = 1 /\ Abs(EnteredDelta) > 21) =>
         /\ result.status = "finished"
         /\ Len(result.analysis) = 1
         /\ result.analysis[1].type = "winner"

C15_Witness ==
  /\ Done
  /\ EnteredRemaining = 1
  /\ EnteredDelta = -22
  /\ result.status = "finished"
  /\ result.winner = DefaultPlayerB

(***************************************************************************)
(* C16: when every entered set score is at most 21 and three or four       *)
(* sports remain, the match is in_progress, no clinch_possible entry is    *)
(* emitted and the info entry that nobody can win after the next sport     *)
(* alone is emitted.                                                       *)
(***************************************************************************)
AllCapped ==
  \A s \in EnteredSports : EnteredA(s) <= 21 /\ EnteredB(s) <= 21

C16_CappedNoClinch ==
  (Done /\ EnteredRemaining \in {3, 4} /\ AllCapped) =>
    /\ result.status = "in_progress"
    /\ OfType(result.analysis, "clinch_possible") = <<>>
    /\ Len(SelectSeq(result.analysis, LAMBDA e : e.text = "nobody_can_win_after")) = 1

C16_Witness ==
  /\ Done
  /\ EnteredSports = {"squash"}
  /\ scores["squash"] = <<"0", "-", "2", "1">>
  /\ result.status = "in_progress"
  /\ result.analysis[3] = Entry("info", "nobody_can_win_after", "-", "Ping-pong",
                                <<>>, <<>>)

(***************************************************************************)
(* ocr.js: parseRacketlonScores.  A text is a sequence of characters with  *)
(* "\n" between lines; "EN" and "EM" are the en and em dash.  The          *)
(* confidence is held in hundredths (0.25 is 25).                          *)
(***************************************************************************)
Dashes == {"-", "EN", "EM"}

UpperChars == <<"A", "B", "C", "D", "E", "F", "G", "H", "I", "J", "K", "L", "M",
                "N", "O", "P", "Q", "R", "S", "T", "U", "V", "W", "X", "Y", "Z">>
LowerChars == <<"a", "b", "c", "d", "e", "f", "g", "h", "i", "j", "k", "l", "m",
                "n", "o", "p", "q", "r", "s", "t", "u", "v", "w", "x", "y", "z">>

\* [A-Za-z] of the name pattern (no accented letter is drawn)
Letters == {UpperChars[i] : i \in 1..26} \cup {LowerChars[i] : i \in 1..26}

ToLowerChar(c) ==
  IF \E i \in 1..26 : UpperChars[i] = c
  THEN LowerChars[CHOOSE i \in 1..26 : UpperChars[i] = c]
  ELSE c

\* text.toLowerCase()
toLowerCase(s) == [i \in 1..Len(s) |-> ToLowerChar(s[i])]

RECURSIVE SkipWhitespace(_, _)
\* \s* from position i: the first position that is not whitespace
SkipWhitespace(s, i) ==
  IF i <= Len(s) /\ s[i] \in Whitespace THEN SkipWhitespace(s, i + 1) ELSE i

IsDigitAt(s, i) == i >= 1 /\ i <= Len(s) /\ s[i] \in Digits
IsLetterAt(s, i) == i >= 1 /\ i <= Len(s) /\ s[i] \in Letters

NoMatch == [start |-> 0, end |-> 0, g1 |-> <<>>, g2 |-> <<>>]

\* (\d{1,2})\s*[-EN EM]\s*(\d{1,2}) at position i with k digits in group 1
ScoreMatchWith(s, i, k) ==
  LET j == SkipWhitespace(s, i + k)
      m == SkipWhitespace(s, j + 1)
      n == IF IsDigitAt(s, m + 1) THEN 2 ELSE 1
  IN IF /\ \A d \in 0..(k - 1) : IsDigitAt(s, i + d)
        /\ j <= Len(s)
        /\ s[j] \in Dashes
        /\ IsDigitAt(s, m)
     THEN [start |-> i, end |-> m + n - 1,
           g1 |-> SubSeq(s, i, i + k - 1), g2 |-> SubSeq(s, m, m + n - 1)]
     ELSE NoMatch

\* the match at position i: two digits are tried before one
ScoreMatchAt(s, i) ==
  IF ScoreMatchWith(s, i, 2).start # 0 THEN ScoreMatchWith(s, i, 2)
  ELSE ScoreMatchWith(s, i, 1)

RECURSIVE ScoreExec(_, _)
\* scorePattern.exec with lastIndex = from - 1: the leftmost match
ScoreExec(s, from) ==
  IF from > Len(s) THEN NoMatch
  ELSE IF ScoreMatchAt(s, from).start # 0 THEN ScoreMatchAt(s, from)
  ELSE ScoreExec(s, from + 1)

\* l.trim()
trim(l) ==
  LET keep == {i \in 1..Len(l) : l[i] \notin Whitespace}
  IN IF keep = {} THEN <<>>
     ELSE SubSeq(l, CHOOSE i \in keep : \A j \in keep : i <= j,
                    CHOOSE i \in keep : \A j \in keep : i >= j)

RECURSIVE split(_)
\* text.split("\n")
split(s) ==
  LET breaks == {i \in 1..Len(s) : s[i] = "\n"}
  IN IF breaks = {} THEN <<s>>
     ELSE LET b == CHOOSE i \in breaks : \A j \in breaks : i <= j
          IN <<SubSeq(s, 1, b - 1)>> \o split(SubSeq(s, b + 1, Len(s)))

\* text.split("\n").map((l) => l.trim()).filter((l) => l.length > 0)
LinesOf(text) ==
  LET raw == split(text)
  IN SelectSeq([i \in 1..Len(raw) |-> trim(raw[i])], LAMBDA l : Len(l) > 0)

ScoreLimit == 35

RECURSIVE ScoresOfLine(_, _)
\* the while loop over scorePattern.exec(line)
ScoresOfLine(line, from) ==
  LET match == ScoreExec(line, from)
      score1 == parseInt(match.g1)
      score2 == parseInt(match.g2)
  IN IF match.start = 0 THEN <<>>
     ELSE (IF score1 <= ScoreLimit /\ score2 <= ScoreLimit
           THEN <<[text |-> ScoreText(score1, score2), score1 |-> score1,
                   score2 |-> score2, line |-> line]>>
           ELSE <<>>)
          \o ScoresOfLine(line, match.end + 1)

RECURSIVE AllScores(_, _)
\* allScores after the first n lines
AllScores(lines, n) ==
  IF n = 0 THEN <<>>
  ELSE AllScores(lines, n - 1) \o ScoresOfLine(lines[n], 1)

\* sportPatterns, flattened in the order the two loops visit them
sportPatterns ==
  <<[sport |-> "tabletennis", pattern |-> <<"p", "i", "n", "g">>],
    [sport |-> "tabletennis", pattern |-> <<"p", "o", "n", "g">>],
    [sport |-> "tabletennis", pattern |-> <<"t", "a", "b", "l", "e">>],
    [sport |-> "tabletennis",
     pattern |-> <<"t", "e", "n", "n", "i", "s", " ", "d", "e", " ",
                   "t", "a", "b", "l", "e">>],
    [sport |-> "tabletennis", pattern |-> <<"t", "t">>],
    [sport |-> "tabletennis",
     pattern |-> <<"t", "e", "n", "i", "s", " ", "d", "e", " ", "m", "e", "s", "a">>],
    [sport |-> "badminton", pattern |-> <<"b", "a", "d">>],
    [sport |-> "badminton",
     pattern |-> <<"b", "a", "d", "m", "i", "n", "t", "o", "n">>],
    [sport |-> "badminton", pattern |-> <<"s", "h", "u", "t", "t", "l", "e">>],
    [sport |-> "squash", pattern |-> <<"s", "q", "u", "a", "s", "h">>],
    [sport |-> "squash", pattern |-> <<"s", "q">>],
    [sport |-> "tennis", pattern |-> <<"t", "e", "n", "n", "i", "s">>],
    [sport |-> "tennis", pattern |-> <<"t", "e", "n">>]>>

\* textLower.indexOf(pattern), 1-based; 0 for -1
indexOf(s, pattern) ==
  LET at == {i \in 1..(Len(s) - Len(pattern) + 1) :
               \A k \in 1..Len(pattern) : s[i + k - 1] = pattern[k]}
  IN IF at = {} THEN 0 ELSE CHOOSE i \in at : \A j \in at : i <= j

NearbyBefore == 20
NearbyAfter == 50

\* text.substring(Math.max(0, idx - 20), Math.min(text.length, idx + 50))
nearbyText(text, idx) ==
  SubSeq(text, Max(1, idx - NearbyBefore), Min(Len(text), idx + NearbyAfter - 1))

\* one pass of the inner loop: acc is [scores, confidence]
TryPattern(acc, text, textLower, sp) ==
  LET idx == indexOf(textLower, sp.pattern)
      scoreMatch == ScoreExec(nearbyText(text, idx), 1)
  IN IF idx # 0 /\ scoreMatch.start # 0 /\ acc.scores[sp.sport] = <<>>
     THEN [scores |-> [acc.scores EXCEPT
                         ![sp.sport] = scoreMatch.g1 \o <<"-">> \o scoreMatch.g2],
           confidence |-> acc.confidence + 25]
     ELSE acc

NoOcrScores == [s \in SportSet |-> <<>>]

RECURSIVE IdentifySports(_, _, _)
\* the scores and confidence after the first n patterns
IdentifySports(text, textLower, n) ==
  IF n = 0 THEN [scores |-> NoOcrScores, confidence |-> 0]
  ELSE TryPattern(IdentifySports(text, textLower, n - 1), text, textLower,
                  sportPatterns[n])

AssumedOrderConfidence == 50

\* if no sport was matched and there are 4 scores, assume they are in order
AssumeOrder(acc, allScores) ==
  IF (\A s \in SportSet : acc.scores[s] = <<>>) /\ Len(allScores) >= 4
  THEN [scores |-> [s \in SportSet |->
                      allScores[CHOOSE i \in 1..4 : SPORTS[i] = s].text],
        confidence |-> AssumedOrderConfidence]
  ELSE acc

RECURSIVE LetterRunEnd(_, _)
\* [A-Za-z]+ from a letter at position i: the last letter of the run
LetterRunEnd(s, i) ==
  IF IsLetterAt(s, i + 1) THEN LetterRunEnd(s, i + 1) ELSE i

\* the sequence <<hi, hi - 1, ..., lo>>
Descending(hi, lo) == [k \in 1..(hi - lo + 1) |-> hi - k + 1]

\* [A-Za-z]+(?:\s+[A-Za-z]+)? from a letter at position i: the ends the
\* pattern can take, in the order backtracking tries them
NameEnds(s, i) ==
  LET e1 == LetterRunEnd(s, i)
      w == SkipWhitespace(s, e1 + 1)
  IN (IF w > e1 + 1 /\ IsLetterAt(s, w)
      THEN Descending(LetterRunEnd(s, w), w) ELSE <<>>)
     \o Descending(e1, i)

IsCharAt(s, i, c) == i >= 1 /\ i <= Len(s) /\ ToLowerChar(s[i]) = c

\* (?:vs?\.?|contre|[-EN EM]) at position p: the ends it can take, in the
\* order backtracking tries them
SeparatorEnds(s, p) ==
  (IF IsCharAt(s, p, "v")
   THEN (IF IsCharAt(s, p + 1, "s")
         THEN (IF IsCharAt(s, p + 2, ".") THEN <<p + 2>> ELSE <<>>) \o <<p + 1>>
         ELSE <<>>)
        \o (IF IsCharAt(s, p + 1, ".") THEN <<p + 1>> ELSE <<>>) \o <<p>>
   ELSE <<>>)
  \o (IF /\ p + 5 <= Len(s)
         /\ toLowerCase(SubSeq(s, p, p + 5)) = <<"c", "o", "n", "t", "r", "e">>
      THEN <<p + 5>> ELSE <<>>)
  \o (IF p >= 1 /\ p <= Len(s) /\ s[p] \in Dashes THEN <<p>> ELSE <<>>)

\* where group 2 starts if group 1 ends at e; 0 if the rest cannot match
SecondNameStart(s, e) ==
  LET seps == SeparatorEnds(s, SkipWhitespace(s, e + 1))
      good == {k \in 1..Len(seps) : IsLetterAt(s, SkipWhitespace(s, seps[k] + 1))}
  IN IF good = {} THEN 0
     ELSE SkipWhitespace(s, seps[CHOOSE k \in good : \A j \in good : k <= j] + 1)

\* the name pattern at position i: [matched, g1, g2]
VsMatchAt(s, i) ==
  LET ends == NameEnds(s, i)
      good == {k \in 1..Len(ends) : SecondNameStart(s, ends[k]) # 0}
      e == ends[CHOOSE k \in good : \A j \in good : k <= j]
      r == SecondNameStart(s, e)
  IN IF ~IsLetterAt(s, i) \/ good = {}
     THEN [matched |-> FALSE, g1 |-> <<>>, g2 |-> <<>>]
     ELSE [matched |-> TRUE, g1 |-> SubSeq(s, i, e),
           g2 |-> SubSeq(s, r, NameEnds(s, r)[1])]

\* text.match(/name sep name/i): the leftmost match
vsMatch(text) ==
  LET at == {i \in 1..Len(text) : VsMatchAt(text, i).matched}
  IN IF at = {} THEN [matched |-> FALSE, g1 |-> <<>>, g2 |-> <<>>]
     ELSE VsMatchAt(text, CHOOSE i \in at : \A j \in at : i <= j)

\* Object.values(result.scores).filter((s) => s !== null).length
foundScores(sc) == Cardinality({s \in SportSet : sc[s] # <<>>})

\* The whole of parseRacketlonScores; null is <<>>
parseRacketlonScores(text) ==
  LET lines == LinesOf(text)
      allScores == AllScores(lines, Len(lines))
      textLower == toLowerCase(text)
      acc == AssumeOrder(IdentifySports(text, textLower, Len(sportPatterns)),
                         allScores)
      names == vsMatch(text)
  IN [playerA |-> IF names.matched THEN trim(names.g1) ELSE <<>>,
      playerB |-> IF names.matched THEN trim(names.g2) ELSE <<>>,
      scores |-> acc.scores,
      raw |-> text,
      confidence |-> IF foundScores(acc.scores) > 0
                     THEN Max(acc.confidence, foundScores(acc.scores) * 25)
                     ELSE acc.confidence]

(***************************************************************************)
(* The sheet parser: parseRacketlonScores on a drawn text                  *)
(***************************************************************************)
MaxLines == 4

\* lines a recognised sheet can hold: bare scores, spaced and en-dash
\* scores, a score over the limit, sport names with and without a score,
\* and the two player names
SheetLines ==
  {<<"2", "1", "-", "1", "5">>,
   <<"9", " ", "-", " ", "2", "1">>,
   <<"3", "6", "-", "2">>,
   <<"t", "t", " ", "2", "1", "-", "1", "5">>,
   <<"b", "a", "d", " ", "3", "0", "EN", "2", "5">>,
   <<"s", "q">>,
   <<"T", "e", "n", "n", "i", "s", " ", "5", "-", "2", "1">>,
   <<"a", "n", "n", " ", "v", "s", " ", "b", "o", "b">>}

RECURSIVE JoinLines(_)
\* the lines with "\n" between them
JoinLines(ls) ==
  IF Len(ls) = 0 THEN <<>>
  ELSE IF Len(ls) = 1 THEN ls[1]
  ELSE ls[1] \o <<"\n">> \o JoinLines(Tail(ls))

SheetTexts ==
  {JoinLines(ls) : ls \in UNION {[1..n -> SheetLines] : n \in 0..MaxLines}}

InitOcr ==
  /\ pc = "start"
  /\ scores = NoScores
  /\ result = NoResult
  /\ scoreStr = Undefined
  /\ parsed = <<>>
  /\ rendered = <<>>
  /\ reparsed = <<>>
  /\ ocrText \in SheetTexts
  /\ ocrSheet = NoSheet
  /\ PageLoaded

ParseRacketlonScores ==
  /\ pc = "start"
  /\ ocrSheet' = parseRacketlonScores(ocrText)
  /\ pc' = "sheet_parsed"
  /\ UNCHANGED <<scores, result, scoreStr, parsed, rendered, reparsed, ocrText,
                 uiVars>>

NextOcr == ParseRacketlonScores

SpecOcr == InitOcr /\ [][NextOcr]_vars

\* the sport names of sportPatterns that occur in the drawn text
NamedInText ==
  {k \in 1..Len(sportPatterns) :
     indexOf(toLowerCase(ocrText), sportPatterns[k].pattern) # 0}

\* the scores of the drawn text, line by line, that pass the limit
ScoresInText == AllScores(LinesOf(ocrText), Len(LinesOf(ocrText)))

\* C13: when no sport is identified from context and four or more score
\* patterns are found, the scores are assigned to the four sports in fixed
\* order and the returned confidence is 0.5, lower than the confidence
\* returned when all four sports are identified from context
C13_AssumedOrderConfidence ==
  /\ (pc = "sheet_parsed" /\ NamedInText = {} /\ Len(ScoresInText) >= 4)
       => /\ \A i \in 1..4 : ocrSheet.scores[SPORTS[i]] = ScoresInText[i].text
          /\ ocrSheet.confidence = 50
  /\ (pc = "sheet_parsed"
        /\ \A s \in SportSet :
             \E k \in NamedInText : sportPatterns[k].sport = s
        /\ IdentifySports(ocrText, toLowerCase(ocrText),
                          Len(sportPatterns)).confidence = 100)
       => ocrSheet.confidence > 50

(***************************************************************************)
(* app.js: the page.  A field value is a sequence of characters, '' is     *)
(* <<>>.  scores is the object last passed to analyzeMatch and result what *)
(* the analysis section shows (NoResult for the placeholder).  pc is the   *)
(* position of the process button's handler.                               *)
(***************************************************************************)
Sides == {"scoreA", "scoreB"}
Tabs == {"manual", "photo"}

ScoreCap == 21

\* if (input.value !== '' && parseInt(input.value) > 21) input.value = 21
CapAt21(value) ==
  IF value # <<>> /\ parseInt(value) > ScoreCap THEN NumberToString(ScoreCap)
  ELSE value

\* getScores(): a sport is present when both of its fields are filled
getScores(f) ==
  [s \in SportSet |->
     IF f[s].scoreA # <<>> /\ f[s].scoreB # <<>>
     THEN f[s].scoreA \o <<"-">> \o f[s].scoreB
     ELSE Undefined]

\* document.getElementById('playerA').value || 'Joueur A'
NameOr(value, default) == IF value = <<>> THEN <<default>> ELSE value

RECURSIVE TotalOf(_, _, _)
\* the sum of one column over the first n rows with both fields filled
TotalOf(f, side, n) ==
  IF n = 0 THEN 0
  ELSE TotalOf(f, side, n - 1)
       + (IF f[SPORTS[n]].scoreA # <<>> /\ f[SPORTS[n]].scoreB # <<>>
          THEN parseInt(f[SPORTS[n]][side]) ELSE 0)

\* what updateTotals() writes
updateTotals(f, p) ==
  LET totalA == TotalOf(f, "scoreA", Len(SPORTS))
      totalB == TotalOf(f, "scoreB", Len(SPORTS))
      delta == totalA - totalB
  IN [totalA |-> totalA, totalB |-> totalB,
      deltaText |-> IF delta > 0
                    THEN <<NameOr(p.playerA, DefaultPlayerA), delta>>
                    ELSE IF delta < 0
                    THEN <<NameOr(p.playerB, DefaultPlayerB), Abs(delta)>>
                    ELSE <<>>,
      className |-> IF delta > 0 THEN "delta-positive"
                    ELSE IF delta < 0 THEN "delta-negative" ELSE "delta-zero"]

\* updateAnalysis() on the fields f and the names p
updateAnalysis(f, p) ==
  /\ analysisRuns' = analysisRuns + 1
  /\ IF \A s \in SportSet : getScores(f)[s] = Undefined
     THEN /\ result' = NoResult
          /\ UNCHANGED scores
     ELSE /\ scores' = getScores(f)
          /\ result' = analyzeMatch(getScores(f),
                                    NameOr(p.playerA, DefaultPlayerA),
                                    NameOr(p.playerB, DefaultPlayerB))

RECURSIVE DigitRunEnd(_, _)
\* \d+ from a digit at position i: the last digit of the run
DigitRunEnd(s, i) == IF IsDigitAt(s, i + 1) THEN DigitRunEnd(s, i + 1) ELSE i

\* score.match(/(\d+)-(\d+)/): the two groups of the leftmost match
FieldMatch(score) ==
  LET at == {i \in 1..Len(score) :
               /\ IsDigitAt(score, i)
               /\ DigitRunEnd(score, i) + 1 <= Len(score)
               /\ score[DigitRunEnd(score, i) + 1] = "-"
               /\ IsDigitAt(score, DigitRunEnd(score, i) + 2)}
      i == CHOOSE k \in at : \A j \in at : k <= j
      e == DigitRunEnd(score, i)
  IN IF at = {} THEN <<>>
     ELSE <<SubSeq(score, i, e), SubSeq(score, e + 2, DigitRunEnd(score, e + 2))>>

\* the fields after the loop of setScores(sc); null is <<>>
setScores(f, sc) ==
  [s \in SportSet |->
     IF sc[s] # <<>> /\ FieldMatch(sc[s]) # <<>>
     THEN [scoreA |-> FieldMatch(sc[s])[1], scoreB |-> FieldMatch(sc[s])[2]]
     ELSE f[s]]

\* what the result panel shows for the sheet r
ShownText(r) ==
  LET found == \E s \in SportSet : r.scores[s] # <<>>
  IN [raw |-> IF r.raw = <<>> THEN <<"(Aucun texte detecte)">> ELSE r.raw,
      detected |-> IF found THEN r.scores ELSE NothingDetected.detected,
      players |-> IF found /\ r.playerA # <<>>
                  THEN <<r.playerA, r.playerB>> ELSE <<>>]

MaxRuns == 2

\* the rows typed into, the values typed into a score field and the names
\* typed into a name field
TypedSports == {"tabletennis", "badminton"}
TypedValues == {<<"7">>, <<"3", "0">>}
TypedNames == {<<>>, <<"A", "n", "n">>}

\* texts the recognition can return: a sport with a score over 21, and
\* names with four scores and no sport
RecognisedTexts ==
  {<<"b", "a", "d", " ", "3", "0", "EN", "2", "5">>,
   JoinLines(<< <<"a", "n", "n", " ", "v", "s", " ", "b", "o", "b">>,
                <<"2", "1", "-", "1", "5">>, <<"9", " ", "-", " ", "2", "1">>,
                <<"2", "1", "-", "1", "5">>, <<"2", "1", "-", "1", "5">> >>)}

\* ocrRacketlonSheet on a photo whose recognised text is text
ocrRacketlonSheet == [text \in RecognisedTexts |-> parseRacketlonScores(text)]

\* texts the progress callback is given
ProgressStatuses == {"recognizing text"}

engineVars == <<scoreStr, parsed, rendered, reparsed, ocrVars>>

InitUI ==
  /\ pc = "ready"
  /\ scores = NoScores
  /\ result = NoResult
  /\ scoreStr = Undefined
  /\ parsed = <<>>
  /\ rendered = <<>>
  /\ reparsed = <<>>
  /\ NoOcr
  /\ PageLoaded

\* the input handler of a score field
TypeScore(sport, side, value) ==
  /\ analysisRuns < MaxRuns
  /\ fields' = [fields EXCEPT ![sport][side] = CapAt21(value)]
  /\ totals' = updateTotals(fields', players)
  /\ updateAnalysis(fields', players)
  /\ UNCHANGED <<pc, players, photoVars, activeTab, engineVars>>

\* the blur handler of a score field
BlurScore(sport, side) ==
  /\ fields[sport][side] # <<>>
  /\ parseInt(fields[sport][side]) > ScoreCap
  /\ fields' = [fields EXCEPT ![sport][side] = NumberToString(ScoreCap)]
  /\ UNCHANGED <<pc, scores, result, players, totals, analysisRuns, photoVars,
                 activeTab, engineVars>>

\* a quick-21 button
Quick21(sport, side) ==
  /\ analysisRuns < MaxRuns
  /\ fields' = [fields EXCEPT ![sport][side] = NumberToString(ScoreCap)]
  /\ totals' = updateTotals(fields', players)
  /\ updateAnalysis(fields', players)
  /\ UNCHANGED <<pc, players, photoVars, activeTab, engineVars>>

\* the clear all button
ClearAll ==
  /\ analysisRuns < MaxRuns
  /\ players' = NoPlayers
  /\ fields' = EmptyFields
  /\ totals' = updateTotals(fields', players')
  /\ updateAnalysis(fields', players')
  /\ UNCHANGED <<pc, photoVars, activeTab, engineVars>>

\* the input handlers of the two name fields
TypePlayerA(value) ==
  /\ analysisRuns < MaxRuns
  /\ players' = [players EXCEPT !.playerA = value,
                                !.headerA = IF value = <<>> THEN <<"A">> ELSE value]
  /\ updateAnalysis(fields, players')
  /\ UNCHANGED <<pc, fields, totals, photoVars, activeTab, engineVars>>

TypePlayerB(value) ==
  /\ analysisRuns < MaxRuns
  /\ players' = [players EXCEPT !.playerB = value,
                                !.headerB = IF value = <<>> THEN <<"B">> ELSE value]
  /\ updateAnalysis(fields, players')
  /\ UNCHANGED <<pc, fields, totals, photoVars, activeTab, engineVars>>

\* a tab is clicked
ClickTab(tab) ==
  /\ activeTab' = tab
  /\ UNCHANGED <<pc, scores, result, formVars, photoVars, engineVars>>

\* the change handler of the photo input: the file is read
ChangePhoto ==
  /\ photo' = [photo EXCEPT !.file = TRUE, !.reading = TRUE]
  /\ UNCHANGED <<pc, scores, result, formVars, ocrStatus, ocrResult, processBtn,
                 lastOcrResult, activeTab, engineVars>>

\* reader.onload
PhotoLoaded ==
  /\ photo.reading
  /\ photo' = [photo EXCEPT !.reading = FALSE, !.previewHidden = FALSE]
  /\ ocrResult' = [ocrResult EXCEPT !.hidden = TRUE]
  /\ UNCHANGED <<pc, scores, result, formVars, ocrStatus, processBtn,
                 lastOcrResult, activeTab, engineVars>>

\* the process button, up to the await
ClickProcess ==
  /\ ~processBtn.disabled
  /\ photo.file
  /\ ocrStatus' = [ocrStatus EXCEPT !.hidden = FALSE]
  /\ ocrResult' = [ocrResult EXCEPT !.hidden = TRUE]
  /\ processBtn' = [disabled |-> TRUE]
  /\ pc' = "awaiting"
  /\ UNCHANGED <<scores, result, formVars, photo, lastOcrResult, activeTab,
                 engineVars>>

\* the progress callback
OcrProgress(status) ==
  /\ pc = "awaiting"
  /\ ocrStatus' = [ocrStatus EXCEPT !.text = IF status = "recognizing text"
                                             THEN "Reconnaissance" ELSE status]
  /\ UNCHANGED <<pc, scores, result, formVars, photo, ocrResult, processBtn,
                 lastOcrResult, activeTab, engineVars>>

\* ocrRacketlonSheet resolves on the recognised text: the rest of the try
\* block, then finally
OcrResolve(text) ==
  /\ pc = "awaiting"
  /\ lastOcrResult' = ocrRacketlonSheet[text]
  /\ ocrResult' = [hidden |-> FALSE, text |-> ShownText(lastOcrResult')]
  /\ ocrStatus' = [ocrStatus EXCEPT !.hidden = TRUE]
  /\ processBtn' = [disabled |-> FALSE]
  /\ pc' = "resolved"
  /\ UNCHANGED <<scores, result, formVars, photo, activeTab, engineVars>>

\* as OcrReject, but the stored result is dropped
OcrRejectDropsResult ==
  /\ pc = "awaiting"
  /\ lastOcrResult' = NoSheet
  /\ ocrStatus' = [ocrStatus EXCEPT !.text = "Erreur"]
  /\ processBtn' = [disabled |-> FALSE]
  /\ pc' = "rejected"
  /\ UNCHANGED <<scores, result, formVars, photo, ocrResult, activeTab,
                 engineVars>>

\* ocrRacketlonSheet rejects: catch, then finally
OcrReject ==
  /\ pc = "awaiting"
  /\ ocrStatus' = [ocrStatus EXCEPT !.text = "Erreur"]
  /\ processBtn' = [disabled |-> FALSE]
  /\ pc' = "rejected"
  /\ UNCHANGED <<scores, result, formVars, photo, ocrResult, lastOcrResult,
                 activeTab, engineVars>>

\* the apply button
ClickApply ==
  /\ lastOcrResult # NoSheet
  /\ analysisRuns < MaxRuns
  /\ players' =
       [playerA |-> IF lastOcrResult.playerA # <<>>
                    THEN lastOcrResult.playerA ELSE players.playerA,
        headerA |-> IF lastOcrResult.playerA # <<>>
                    THEN lastOcrResult.playerA ELSE players.headerA,
        playerB |-> IF lastOcrResult.playerB # <<>>
                    THEN lastOcrResult.playerB ELSE players.playerB,
        headerB |-> IF lastOcrResult.playerB # <<>>
                    THEN lastOcrResult.playerB ELSE players.headerB]
  /\ fields' = setScores(fields, lastOcrResult.scores)
  /\ totals' = updateTotals(fields', players')
  /\ updateAnalysis(fields', players')
  /\ activeTab' = "manual"
  /\ UNCHANGED <<pc, photoVars, engineVars>>

NextUI ==
  \/ \E sport \in TypedSports, side \in Sides, value \in TypedValues :
       TypeScore(sport, side, value)
  \/ \E sport \in SportSet, side \in Sides : BlurScore(sport, side)
  \/ \E sport \in TypedSports, side \in Sides : Quick21(sport, side)
  \/ ClearAll
  \/ \E value \in TypedNames : TypePlayerA(value)
  \/ \E value \in TypedNames : TypePlayerB(value)
  \/ \E tab \in Tabs : ClickTab(tab)
  \/ ChangePhoto
  \/ PhotoLoaded
  \/ ClickProcess
  \/ \E status \in ProgressStatuses : OcrProgress(status)
  \/ \E text \in RecognisedTexts : OcrResolve(text)
  \/ OcrReject
  \/ ClickApply

SpecUI == InitUI /\ [][NextUI]_vars

\* the two numbers of a score object entry, read off its text around the "-"
PassedA(str) == parseInt(SubSeq(str, 1, indexOf(str, <<"-">>) - 1))
PassedB(str) == parseInt(SubSeq(str, indexOf(str, <<"-">>) + 1, Len(str)))

\* the fields are as they were when updateAnalysis last passed scores on
AsPassed == analysisRuns > 0 /\ scores = getScores(fields)

\* C11: a failed recognition is reported only through the status text: the
\* stored result, the score fields, the names, the totals, the analysis and
\* the engine's last input stay as they were, updateAnalysis does not run,
\* and the process button is enabled again, as it is after a success
C11_FailedOcrOnlyReported ==
  [][/\ (pc = "awaiting" /\ pc' = "rejected")
          => (/\ lastOcrResult' = lastOcrResult
             /\ fields' = fields
             /\ scores' = scores
             /\ result' = result
             /\ analysisRuns' = analysisRuns
             /\ players' = players
             /\ totals' = totals
             /\ ocrResult' = ocrResult
             /\ ocrStatus' = [ocrStatus EXCEPT !.text = "Erreur"]
             /\ ~ocrStatus'.hidden
             /\ ~processBtn'.disabled)
      /\ ((pc = "awaiting" /\ pc' = "resolved") => ~processBtn'.disabled)
      /\ ((pc = "awaiting" /\ pc' = "awaiting") => processBtn'.disabled)]_vars

\* a recognition failed after an earlier one was stored and applied
C11_Witness ==
  /\ pc = "rejected"
  /\ lastOcrResult # NoSheet
  /\ lastOcrResult.confidence = 100
  /\ fields["tennis"] = [scoreA |-> <<"2", "1">>, scoreB |-> <<"1", "5">>]
  /\ scores["tennis"] = <<"2", "1", "-", "1", "5">>
  /\ result # NoResult
  /\ ocrStatus = [hidden |-> FALSE, text |-> "Erreur"]
  /\ ~processBtn.disabled

\* C12: the UI caps scores at 21: whenever updateAnalysis passes the scores
\* to analyzeMatch, every score field holds a value of at most 21
C12_ScoresCappedAt21 ==
  AsPassed =>
    /\ \A s \in SportSet, side \in Sides :
         fields[s][side] # <<>> => parseInt(fields[s][side]) <= MAX_POINTS_PER_SET
    /\ \A s \in SportSet :
         scores[s] # Undefined
           => /\ PassedA(scores[s]) <= MAX_POINTS_PER_SET
              /\ PassedB(scores[s]) <= MAX_POINTS_PER_SET

====
